---------------------------- MODULE Spec2Model ----------------------------
(***************************************************************************)
(* A model of flagmaker's SettingOption (src/flagmaker/settings.py), of    *)
(* the hooks that app_flags.py and app_settings.py attach to options, and  *)
(* of the file decoder (src/csv_decoder.py).                               *)
(*                                                                         *)
(* One SettingOption is declared (opt) and resolved by calls of            *)
(* set_value.  set_value is modelled statement by statement: pc is the     *)
(* line set_value stands at, stack holds the frames of the post-set hooks  *)
(* that are running above it (a hook may assign setting.value, which runs  *)
(* the value setter and so the hook again).                                *)
(*                                                                         *)
(* Spec and FairSpec are the behaviours of set_value, VisibilitySpec those *)
(* of maybe_needs_input over the settings, DecoderSpec those of            *)
(* Decoder.run over a tree of files.                                       *)
(***************************************************************************)
EXTENDS Integers, Sequences, FiniteSets, TLC

VARIABLES
    opt,             \* the declaration made by SettingOption.create
    __value,         \* the Value cell: [set, val]
    __error,         \* the error flag written by the value setter
    custom_data,     \* SettingOption.custom_data, the class-level dict
    custom,          \* the settings container's shared dict (s.custom)
    storage,         \* Hooks.storage is not None
    location,        \* the value of the sibling option 'location'
    created,         \* storage.create_bucket calls made in this call
    args,            \* the arguments of the running set_value call
    pc,              \* where set_value stands
    stack,           \* frames of the running hooks, innermost last
    exc,             \* the exception that ended set_value, or "none"
    line,            \* the last line read from the console by set_value
    reads,           \* console reads made by set_value in this call
    hook_calls,      \* post-set hook invocations in this loop iteration
    validator_calls, \* Validator.validate calls in this loop iteration
    noticed,         \* 'Required Field' was printed in this call
    decorator_calls, \* pre-prompt decorator invocations for this call
    assigned,        \* the last value handed to the value setter
    entry,           \* the cell and the error flag when set_value was called
    calls,           \* set_value calls made so far
    \* --- the visibility check of an option (maybe_needs_input) ---
    declared,        \* "created", or the error of the create call
    show,            \* the visibility predicate the option declares
    settings,        \* the Value cells of the options the predicates read
    dependent,       \* the Value cell of the option that declares show
    needs_input,     \* what maybe_needs_input answered last
    \* --- the file decoder (csv_decoder.Decoder) ---
    tree,            \* the files under Decoder.path: node -> [p, parent]
    out_type,        \* Decoder.out_type
    first,           \* Decoder.first
    rows_opened,     \* Decoder.rows_opened
    _file_count,     \* Decoder._file_count
    exists,          \* the archives whose extraction directory is on disk
    dstack,          \* the decoders running, innermost last
    dpc,             \* where Decoder.run stands
    dexc,            \* the exception that ended Decoder.run, or "none"
    written,         \* node -> the writes of its rows that succeeded
    headers,         \* header rows in the output files so far
    emitted,         \* the columns emitted by the last write that succeeded
    renamed,         \* <<source name, new name>> of the last write's frame
    failed,          \* write attempts that raised after reading the frame
    skipped          \* the paths logged as skipped

vars == <<opt, __value, __error, custom_data, custom, storage, location,
          created, args, pc,
          stack, exc, line, reads, hook_calls, validator_calls, noticed,
          decorator_calls, assigned, entry, calls>>

vvars == <<declared, show, settings, dependent, needs_input>>

dvars == <<tree, out_type, first, rows_opened, _file_count, exists, dstack,
           dpc, dexc, written, headers, emitted, renamed, failed, skipped>>

\* the variables of the other components, which set_value leaves alone
others == <<vvars, dvars>>

---------------------------------------------------------------------------
(* Bounds of the model.                                                    *)

\* set_value calls made on the option in one behaviour
MaxCalls == 2
\* the console-read counter saturates here
MaxReads == 3
\* inside a hook the operator types 'c' only below this depth of frames
MaxDepth == 2
\* the counter of hook invocations saturates here
MaxHookCalls == 3

---------------------------------------------------------------------------
(* Python values.  Every value carries its type, so that '1' (a string),   *)
(* 1 (an integer) and True differ, as they do for == in Python.            *)

None == [t |-> "none", s |-> "", n |-> 0]
Str(x) == [t |-> "str", s |-> x, n |-> 0]
Bool(b) == [t |-> "bool", s |-> "", n |-> IF b THEN 1 ELSE 0]
PyInt(k) == [t |-> "int", s |-> "", n |-> k]
\* a google.cloud.storage Bucket named x, a datetime of the day x
Bucket(x) == [t |-> "Bucket", s |-> x, n |-> 0]
Date(x) == [t |-> "datetime", s |-> x, n |-> 0]

\* bool(v)
Truthy(v) ==
    CASE v.t = "none" -> FALSE
      [] v.t = "str" -> v.s # ""
      [] v.t = "bool" -> v.n = 1
      [] v.t = "int" -> v.n # 0
      [] OTHER -> TRUE

\* the strings of the model that str.isnumeric() accepts, with their value
NumericStrings == {"0", "1", "2", "3"}

IntOf(x) ==
    CASE x = "0" -> 0
      [] x = "1" -> 1
      [] x = "2" -> 2
      [] x = "3" -> 3

\* int(v): [kind, val, exc]
int(v) ==
    CASE v.t = "str" /\ v.s \in NumericStrings ->
            [kind |-> "commit", val |-> PyInt(IntOf(v.s)), exc |-> "none"]
      [] v.t = "str" /\ v.s \notin NumericStrings ->
            [kind |-> "raise", val |-> None, exc |-> "ValueError"]
      [] v.t = "int" ->
            [kind |-> "commit", val |-> v, exc |-> "none"]
      [] v.t = "bool" ->
            [kind |-> "commit", val |-> PyInt(v.n), exc |-> "none"]
      [] OTHER ->
            [kind |-> "raise", val |-> None, exc |-> "TypeError"]

\* seq[i] as Python indexes a list: a negative i counts from the end
PyIndex(seq, i) == IF i < 0 THEN seq[Len(seq) + i + 1] ELSE seq[i + 1]

\* the strings of the model that strptime(s, '%Y-%m-%d') accepts
IsoDates == {"2020-01-02"}

\* dateutil's parse(s, dayfirst=d) on the strings of the model: the day it
\* finds, "" when it raises ParserError (a ValueError).  With dayfirst a
\* year is followed by the day, then the month.  A bare number from 1 to
\* 31 is a day of the current month, written here with %Y-%m for the year
\* and the month of the run; 0 is no day.
parse_date(x, dayfirst) ==
    CASE x = "1/2/2020" -> IF dayfirst THEN "2020-02-01" ELSE "2020-01-02"
      [] x = "2020-01-02" -> IF dayfirst THEN "2020-02-01" ELSE "2020-01-02"
      [] x = "1" -> "%Y-%m-01"
      [] x = "2" -> "%Y-%m-02"
      [] x = "3" -> "%Y-%m-03"
      [] OTHER -> ""

\* str.lower().startswith('us') on the locations of the model
StartsWithUs(x) == x \in {"US", "us"}

\* the lines the operator may type at set_value's prompt
Lines(o) ==
    CASE o.after \in {"flags.create_bucket", "create_bucket"} ->
            {"", "abc", "0", "1", "3", "c"}
      [] o.after = "convert_to_date" -> {"", "abc", "2020-01-02", "1/2/2020"}
      [] o.after = "ensure_utf8" -> {"", "abc", "gs://b/abc"}
      [] OTHER -> {"", "abc", "0", "1", "true", "false"}

\* the lines the operator may type when create_bucket asks for a name
NameLines == {"", "b1", "b3", "c", "1", "0"}

\* the answers the operator may give to a [y/n] question
Answers == {"y", "n", "abc"}

\* what storage.get_bucket may do
GetOutcomes == {"found", "NotFound", "Forbidden"}

\* the values a caller may pass as set_value's value argument
DirectValues == {"", "abc", "1", "0"}

\* the values a caller may pass as set_value's init argument
InitValues == {Str(""), None, Str("abc"), Str("0"), Bool(FALSE)}

---------------------------------------------------------------------------
(* The Value cell (flagmaker.building_blocks.Value).                       *)

Unset == [set |-> FALSE, val |-> None]

\* Value.set_val(v): always succeeds, the cell is explicitly set afterwards
set_val(v) == [set |-> TRUE, val |-> v]

\* Value.get_val(): the stored value, None while unset
get_val(c) == IF c.set THEN c.val ELSE None

\* SettingOption.value (getter)
value == get_val(__value)

\* SettingOption.value_explicitly_set: bool(self.__value)
value_explicitly_set == __value.set

---------------------------------------------------------------------------
(* Declarations.                                                           *)

Methods == {"DEFINE_string", "DEFINE_boolean", "DEFINE_integer"}

\* the post-set hooks; "None" is no hook
SimpleHooks == {"flags.set_clients", "set_clients", "map_historical_column"}
\* the hooks that read the console, call the cloud or assign setting.value
FramedHooks == {"flags.create_bucket", "create_bucket", "convert_to_date",
                "ensure_utf8"}
Hooks == {"None"} \cup SimpleHooks \cup FramedHooks

\* the pre-prompt decorators; "str" is a prompt given as a string
Prompts == {"None", "str", "flags.bucket_options", "bucket_options"}

\* the validation callables: "not_abc" rejects the value 'abc'
Validations == {"None", "not_abc"}

DefaultsOf(m) ==
    CASE m = "DEFINE_string" -> {None, Str("raw")}
      [] m = "DEFINE_boolean" -> {None, Bool(TRUE), Bool(FALSE)}
      [] m = "DEFINE_integer" -> {None, PyInt(2)}

\* SettingOption.create (lines 30-43), the class left out: helptext,
\* default, method, required, validation, show, after, prompt
create(helptext, default, method, required, validation, show_, after, prompt) ==
    [help |-> helptext, default |-> default, method |-> method,
     required |-> required, validation |-> validation, show |-> show_,
     after |-> after, prompt |-> prompt]

\* the options create can be asked for, each argument in its own place
Declarations ==
    { create("help", d, m, r, v, "None", a, p) :
        d \in UNION {DefaultsOf(mm) : mm \in Methods}, m \in Methods,
        r \in BOOLEAN, v \in Validations, a \in Hooks, p \in Prompts }

\* a declaration whose default fits its parser, and whose decorator and hook
\* come from the same settings file
WellTyped(o) ==
    /\ o.default \in DefaultsOf(o.method)
    /\ o.prompt = "flags.bucket_options" =>
          o.after \in {"None", "flags.set_clients", "flags.create_bucket"}
    /\ o.prompt = "bucket_options" =>
          o.after \in {"None", "set_clients", "create_bucket"}
    /\ o.prompt = "str" => o.after = "None"
    /\ o.after \in FramedHooks => o.method = "DEFINE_string"

\* a keyword argument that the call does not pass
Absent == [t |-> "absent", s |-> "", n |-> 0]

\* the calls SettingOption.create(self, text, keyword=...) of app_flags.py
\* and app_settings.py: the text, the keywords passed ("-" or Absent for a
\* keyword that is not passed), in other the first keyword that is no
\* parameter of create, in predicate the lambda passed as show or as
\* conditional
SourceDeclarations == {
\* app_flags.py line 23: gcp_project_name
  [text |-> "GCP Project Name",
   default |-> Absent, method |-> "-", required |-> "-",
   show |-> "-", after |-> "flags.set_clients", prompt |-> "-", other |-> "-", predicate |-> "-"],
\* app_flags.py line 28: raw_dataset
  [text |-> "Dataset where raw data will be stored",
   default |-> Str("raw"), method |-> "-", required |-> "-",
   show |-> "-", after |-> "-", prompt |-> "-", other |-> "-", predicate |-> "-"],
\* app_flags.py line 33: view_dataset
  [text |-> "Dataset where view data will be generated and stored",
   default |-> Str("views"), method |-> "-", required |-> "-",
   show |-> "-", after |-> "-", prompt |-> "-", other |-> "-", predicate |-> "-"],
\* app_flags.py line 38: location
  [text |-> "Cloud Location (2 letter country code)",
   default |-> Str("US"), method |-> "-", required |-> "-",
   show |-> "-", after |-> "-", prompt |-> "-", other |-> "-", predicate |-> "-"],
\* app_flags.py line 43: agency_id
  [text |-> "SA360 Agency ID",
   default |-> Absent, method |-> "-", required |-> "-",
   show |-> "-", after |-> "-", prompt |-> "-", other |-> "-", predicate |-> "-"],
\* app_flags.py line 44: advertiser_id
  [text |-> "SA360 Advertiser IDs",
   default |-> Absent, method |-> "DEFINE_list", required |-> "-",
   show |-> "-", after |-> "-", prompt |-> "-", other |-> "-", predicate |-> "-"],
\* app_flags.py line 49: has_historical_data
  [text |-> "Include Historical Data?",
   default |-> Absent, method |-> "DEFINE_boolean", required |-> "-",
   show |-> "-", after |-> "-", prompt |-> "-", other |-> "-", predicate |-> "-"],
\* app_flags.py line 54: storage_bucket
  [text |-> "Storage Bucket Name",
   default |-> Absent, method |-> "-", required |-> "-",
   show |-> "-", after |-> "flags.create_bucket", prompt |-> "flags.bucket_options", other |-> "-", predicate |-> "-"],
\* app_flags.py line 60: historical_table_name
  [text |-> "Name of historical table (suffix will be advertiser ID)",
   default |-> Str("historical"), method |-> "-", required |-> "-",
   show |-> "flags.has_historical_data", after |-> "-", prompt |-> "-", other |-> "-", predicate |-> "flags.has_historical_data"],
\* app_flags.py line 66: file_path
  [text |-> "Provide your CSV file path. \nIf in storage, provide a full URL starting with gs://. Otherwise, drag and drop the file here and just specify the file name.\nFile Location",
   default |-> Absent, method |-> "-", required |-> "-",
   show |-> "-", after |-> "ensure_utf8", prompt |-> "-", other |-> "mapto", predicate |-> "-"],
\* app_settings.py line 75: overwrite_storage_csv
  [text |-> "Override unified default storage CSV if it exists? this would be sa360-bq-[advertiser ID].csv. If it exists, then it will be re-used to save you money, unless you want to start from scratch.",
   default |-> Bool(FALSE), method |-> "DEFINE_boolean", required |-> "-",
   show |-> "-", after |-> "-", prompt |-> "-", other |-> "include_in_interactive", predicate |-> "-"],
\* app_settings.py line 85: gcp_project_name
  [text |-> "GCP Project Name",
   default |-> Absent, method |-> "-", required |-> "-",
   show |-> "-", after |-> "set_clients", prompt |-> "-", other |-> "-", predicate |-> "-"],
\* app_settings.py line 90: raw_dataset
  [text |-> "Dataset where raw data will be stored",
   default |-> Str("raw"), method |-> "-", required |-> "-",
   show |-> "-", after |-> "-", prompt |-> "-", other |-> "-", predicate |-> "-"],
\* app_settings.py line 95: view_dataset
  [text |-> "Dataset where view data will be generated and stored",
   default |-> Str("views"), method |-> "-", required |-> "-",
   show |-> "-", after |-> "-", prompt |-> "-", other |-> "-", predicate |-> "-"],
\* app_settings.py line 100: location
  [text |-> "Cloud Location (2 letter country code)",
   default |-> Str("US"), method |-> "-", required |-> "-",
   show |-> "-", after |-> "-", prompt |-> "-", other |-> "-", predicate |-> "-"],
\* app_settings.py line 105: agency_id
  [text |-> "SA360 Agency ID",
   default |-> Absent, method |-> "-", required |-> "-",
   show |-> "-", after |-> "-", prompt |-> "-", other |-> "-", predicate |-> "-"],
\* app_settings.py line 106: advertiser_id
  [text |-> "SA360 Advertiser",
   default |-> Absent, method |-> "DEFINE_string", required |-> "-",
   show |-> "-", after |-> "-", prompt |-> "-", other |-> "-", predicate |-> "-"],
\* app_settings.py line 111: has_historical_data
  [text |-> "Include Historical Data?\nNote: This will be true as long as any advertisers are going to have historical data included.\nIf you are uploading multiple advertisers, any of them with historical data should have the same format. If not, upload individual advertisers\nInput",
   default |-> Absent, method |-> "DEFINE_boolean", required |-> "-",
   show |-> "-", after |-> "-", prompt |-> "-", other |-> "-", predicate |-> "-"],
\* app_settings.py line 121: storage_bucket
  [text |-> "Storage Bucket Name",
   default |-> Absent, method |-> "-", required |-> "-",
   show |-> "-", after |-> "create_bucket", prompt |-> "bucket_options", other |-> "-", predicate |-> "-"],
\* app_settings.py line 127: file_location
  [text |-> "Is your data in GCS or did you upload here?",
   default |-> Absent, method |-> "DEFINE_enum", required |-> "True",
   show |-> "-", after |-> "-", prompt |-> "-", other |-> "options", predicate |-> "-"],
\* app_settings.py line 134: file_path
  [text |-> "Historical Data CSV File Path (can be a directory of file)",
   default |-> Absent, method |-> "-", required |-> "-",
   show |-> "-", after |-> "-", prompt |-> "-", other |-> "conditional", predicate |-> "has_historical_data"],
\* app_settings.py line 140: first_date_conversions
  [text |-> "The first date of conversions",
   default |-> Absent, method |-> "-", required |-> "-",
   show |-> "-", after |-> "convert_to_date", prompt |-> "-", other |-> "conditional", predicate |-> "has_historical_data"],
\* app_settings.py line 148: has_revenue_column
  [text |-> "Does the report show revenue?",
   default |-> Bool(TRUE), method |-> "DEFINE_boolean", required |-> "-",
   show |-> "-", after |-> "-", prompt |-> "-", other |-> "-", predicate |-> "-"],
\* app_settings.py line 154: has_device_segment
  [text |-> "Does the report have a device segment column?",
   default |-> Bool(TRUE), method |-> "DEFINE_boolean", required |-> "-",
   show |-> "-", after |-> "-", prompt |-> "-", other |-> "-", predicate |-> "-"],
\* app_settings.py line 160: report_level
  [text |-> "Specify the report level of the advertisers being uploaded (conversion/keyword/campaign)",
   default |-> Str("keyword"), method |-> "DEFINE_enum", required |-> "-",
   show |-> "-", after |-> "-", prompt |-> "-", other |-> "options", predicate |-> "-"],
\* app_settings.py line 179: account_column_name
  [text |-> "Column name for the Account Name",
   default |-> Str("account_name"), method |-> "-", required |-> "-",
   show |-> "-", after |-> "map_historical_column", prompt |-> "-", other |-> "-", predicate |-> "-"],
\* app_settings.py line 185: campaign_column_name
  [text |-> "Campaign Column Name for Historical Data (only if including historical data)",
   default |-> Str("campaign_name"), method |-> "-", required |-> "-",
   show |-> "-", after |-> "map_historical_column", prompt |-> "-", other |-> "-", predicate |-> "-"],
\* app_settings.py line 192: conversion_count_column
  [text |-> "Specify the conversion column",
   default |-> Str("conversions"), method |-> "-", required |-> "-",
   show |-> "-", after |-> "map_historical_column", prompt |-> "-", other |-> "-", predicate |-> "-"],
\* app_settings.py line 198: revenue_column_name
  [text |-> "Column name for revenue gained from conversion(s)\n If left blank, then no revenue will be recorded.\nColumn Name",
   default |-> Str("revenue"), method |-> "-", required |-> "False",
   show |-> "-", after |-> "map_historical_column", prompt |-> "-", other |-> "conditional", predicate |-> "has_revenue_column"],
\* app_settings.py line 208: device_segment_column_name
  [text |-> "Device Segment Column Name (if there is none, omit)",
   default |-> Str("device_segment"), method |-> "-", required |-> "-",
   show |-> "-", after |-> "map_historical_column", prompt |-> "-", other |-> "conditional", predicate |-> "has_device_segment"],
\* app_settings.py line 215: date_column_name
  [text |-> "Column name for the Date Value",
   default |-> Str("date"), method |-> "-", required |-> "-",
   show |-> "-", after |-> "map_historical_column", prompt |-> "-", other |-> "-", predicate |-> "-"],
\* app_settings.py line 221: adgroup_column_name
  [text |-> "Column name for the ad group name",
   default |-> Str("ad_group"), method |-> "-", required |-> "-",
   show |-> "-", after |-> "map_historical_column", prompt |-> "-", other |-> "conditional", predicate |-> "report_level_not_campaign"],
\* app_settings.py line 228: keyword_match_type
  [text |-> "Keyword Match Type Column (omit if uploading a campaign-level report)",
   default |-> Str("match_type"), method |-> "-", required |-> "-",
   show |-> "-", after |-> "map_historical_column", prompt |-> "-", other |-> "conditional", predicate |-> "report_level_not_campaign"],
\* app_settings.py line 236: keyword_column_name
  [text |-> "Keyword Column Name",
   default |-> Str("keyword"), method |-> "-", required |-> "-",
   show |-> "-", after |-> "map_historical_column", prompt |-> "-", other |-> "conditional", predicate |-> "report_level_not_campaign"] }

\* create is a classmethod and is called on the class: the first argument
\* of the call, self (the AppSettings object), is bound to helptext and the
\* text to default.  The call raises TypeError when it passes default once
\* more by keyword, or a keyword that is no parameter of create.
declare_raises(c) == c.default # Absent \/ c.other # "-"

\* the option the call c creates
declare(c) ==
    create("AppSettings", Str(c.text),
           IF c.method = "-" THEN "DEFINE_string" ELSE c.method,
           IF c.required = "-" THEN TRUE ELSE c.required = "True",
           "None",
           IF c.show = "-" THEN "None" ELSE c.show,
           IF c.after = "-" THEN "None" ELSE c.after,
           IF c.prompt = "-" THEN "None" ELSE c.prompt)

\* the options that app_flags.py and app_settings.py declare: the help
\* text is their default
DeclaredOptions ==
    { declare(c) : c \in {d \in SourceDeclarations : ~declare_raises(d)} }

\* the declaration reads Hooks.storage
UsesStorage(o) ==
    \/ o.prompt \in {"flags.bucket_options", "bucket_options"}
    \/ o.after \in {"flags.create_bucket", "create_bucket", "ensure_utf8"}

\* the lists storage.list_buckets() may return
BucketLists == {<<>>, <<"b1">>, <<"b1", "b2">>}

NoBuckets == [present |-> FALSE, list |-> <<>>]

---------------------------------------------------------------------------
(* The value setter.                                                       *)

\* Coerce with the 'return' of line 74 lost: '0' and 'false' commit False
Coerce_false_commits(m, v) ==
    IF m = "DEFINE_boolean" THEN
        IF v = Str("1") \/ v = Str("true")
        THEN [kind |-> "commit", val |-> Bool(TRUE), exc |-> "none"]
        ELSE IF v = Str("0") \/ v = Str("false")
        THEN [kind |-> "commit", val |-> Bool(FALSE), exc |-> "none"]
        ELSE [kind |-> "commit", val |-> v, exc |-> "none"]
    ELSE IF m = "DEFINE_integer" THEN int(v)
    ELSE [kind |-> "commit", val |-> v, exc |-> "none"]

\* lines 69-76: the coercion done by the setter before it commits
Coerce(m, v) ==
    IF m = "DEFINE_boolean" THEN
        IF v = Str("1") \/ v = Str("true")
        THEN [kind |-> "commit", val |-> Bool(TRUE), exc |-> "none"]
        ELSE IF v = Str("0") \/ v = Str("false")
        THEN [kind |-> "return", val |-> Bool(FALSE), exc |-> "none"]
        ELSE [kind |-> "commit", val |-> v, exc |-> "none"]
    ELSE IF m = "DEFINE_integer" THEN int(v)
    ELSE [kind |-> "commit", val |-> v, exc |-> "none"]

\* what a hook that runs to its end in one step returns
SimpleHookResult(h) ==
    CASE h = "flags.set_clients" -> None
      [] h = "set_clients" -> Bool(TRUE)
      [] h = "map_historical_column" -> None

\* what such a hook leaves in the container's dict
SimpleHookCustom(h, c) ==
    CASE h = "set_clients" -> [c EXCEPT !.storage_client = TRUE]
      [] h = "map_historical_column" -> [c EXCEPT !.historical_map = TRUE]
      [] OTHER -> c

\* what such a hook leaves in Hooks.storage
SimpleHookStorage(h, c, st) ==
    CASE h = "flags.set_clients" -> TRUE
      [] h = "set_clients" -> IF c.storage_client THEN st ELSE TRUE
      [] OTHER -> st

\* the frame of a hook that has just been called
NewFrame(h) == [fn |-> h, at |-> "top", toggle |-> FALSE, date |-> None]

\* an exception leaves set_value: set_value and the setter catch nothing,
\* convert_to_date turns a ValueError into a FlagMakerConfigurationError
Raise(e) ==
    /\ pc' = "raised"
    /\ exc' = IF e = "ValueError"
                 /\ \E i \in 1..Len(stack) : stack[i].fn = "convert_to_date"
              THEN "FlagMakerConfigurationError" ELSE e
    /\ stack' = <<>>

\* self.value = v (lines 67-82).  The caller goes on at cont of set_value
\* with the frames st; hc is the number of hook invocations made so far in
\* this iteration.
Setter(v, cont, st, hc) ==
    LET c == Coerce(opt.method, v) IN
    /\ assigned' = [arg |-> v, tick |-> 1 - assigned.tick]
    /\ CASE c.kind = "raise" ->
              /\ Raise(c.exc)
              /\ hook_calls' = hc
              /\ UNCHANGED <<__value, __error, custom, storage>>
         [] c.kind = "return" ->
              /\ pc' = cont
              /\ stack' = st
              /\ hook_calls' = hc
              /\ UNCHANGED <<__value, __error, custom, storage, exc>>
         [] c.kind = "commit" /\ opt.after = "None" ->
              /\ __value' = set_val(c.val)
              /\ __error' = FALSE
              /\ pc' = cont
              /\ stack' = st
              /\ hook_calls' = hc
              /\ UNCHANGED <<custom, storage, exc>>
         [] c.kind = "commit" /\ opt.after \in SimpleHooks ->
              /\ __value' = set_val(c.val)
              /\ hook_calls' = IF hc < MaxHookCalls THEN hc + 1 ELSE hc
              /\ custom' = SimpleHookCustom(opt.after, custom)
              /\ storage' = SimpleHookStorage(opt.after, custom, storage)
              /\ __error' = ~Truthy(SimpleHookResult(opt.after))
              /\ pc' = cont
              /\ stack' = st
              /\ UNCHANGED exc
         [] c.kind = "commit" /\ opt.after \in FramedHooks ->
              /\ __value' = set_val(c.val)
              /\ hook_calls' = IF hc < MaxHookCalls THEN hc + 1 ELSE hc
              /\ pc' = cont
              /\ stack' = Append(st, NewFrame(opt.after))
              /\ UNCHANGED <<__error, custom, storage, exc>>

\* the setter called by set_value
Assign(v, cont, hc) == Setter(v, cont, stack, hc) /\ UNCHANGED created

---------------------------------------------------------------------------
(* The hooks that run in steps.  The innermost frame runs.                 *)

Top == stack[Len(stack)]

\* the frames with the innermost one moved to a, its toggle set to tg
Move(a, tg) == [stack EXCEPT ![Len(stack)].at = a, ![Len(stack)].toggle = tg]

\* the hook fn of the innermost frame is running at a
Running(fns, a) == stack # <<>> /\ Top.fn \in fns /\ Top.at = a

\* what a hook step leaves alone
HookFrame ==
    UNCHANGED <<opt, custom_data, location, args, line, reads,
                validator_calls, noticed, decorator_calls, entry, calls>>

\* the hook returns r to the setter, which stores the error flag (line 80)
Return(r) ==
    /\ stack' = SubSeq(stack, 1, Len(stack) - 1)
    /\ __error' = ~Truthy(r)
    /\ UNCHANGED <<__value, custom, storage, created, pc, exc, hook_calls,
                   assigned>>

\* the hook raises e
HookRaise(e) ==
    /\ Raise(e)
    /\ UNCHANGED <<__value, __error, custom, storage, created, hook_calls,
                   assigned>>

\* the hook goes on at a
Goto(a, tg) ==
    /\ stack' = Move(a, tg)
    /\ UNCHANGED <<__value, __error, custom, storage, created, pc, exc,
                   hook_calls, assigned>>

\* setting.value = v inside the hook, which goes on at a afterwards
HookAssign(v, a, tg) ==
    /\ Setter(v, pc, Move(a, tg), hook_calls)
    /\ UNCHANGED created

\* the dict in which create_bucket looks for 'buckets'
BucketsOf(fn) == IF fn = "flags.create_bucket" THEN custom_data
                 ELSE custom.buckets

\* an invalid answer: app_flags.py returns False (lines 112-113, 117-118),
\* app_settings.py raises (lines 278, 282)
Reject(fn) ==
    IF fn = "flags.create_bucket" THEN Return(Bool(FALSE))
    ELSE HookRaise("FlagMakerConfigurationError")

\* create_bucket, from the top of its loop to the lookup
\* (app_flags.py 102-118, app_settings.py 268-282)
CreateBucketTop ==
    /\ Running({"flags.create_bucket", "create_bucket"}, "top")
    /\ LET b == BucketsOf(Top.fn) IN
       IF ~b.present THEN Return(Bool(TRUE))
       ELSE IF value.t # "str" THEN HookRaise("AttributeError")
       ELSE IF value.s \in NumericStrings THEN
            IF IntOf(value.s) <= Len(b.list)
            THEN IF b.list = <<>> THEN HookRaise("IndexError")
                 ELSE HookAssign(Str(PyIndex(b.list, IntOf(value.s) - 1)),
                                 "return_true", Top.toggle)
            ELSE Reject(Top.fn)
       ELSE IF value = Str("c") THEN
            \E l \in NameLines :
                /\ l = "c" => Len(stack) < MaxDepth
                /\ HookAssign(Str(l), "lookup", Top.toggle)
       ELSE IF ~Top.toggle THEN Reject(Top.fn)
       ELSE Goto("lookup", Top.toggle)
    /\ HookFrame

\* create_bucket: the lookup of the bucket
\* (app_flags.py 119-125 and 139-147, app_settings.py 283-289 and 303-311)
CreateBucketLookup ==
    /\ Running({"flags.create_bucket", "create_bucket"}, "lookup")
    /\ IF ~Truthy(value) THEN Return(Bool(TRUE))
       ELSE IF ~storage THEN HookRaise("AttributeError")
       ELSE \E g \in GetOutcomes :
              CASE g = "found" -> HookAssign(Str(value.s), "return_true", FALSE)
                [] g = "NotFound" -> Goto("ask_create", FALSE)
                [] g = "Forbidden" -> Goto("choose_another", TRUE)
    /\ HookFrame

\* create_bucket: the bucket was not found
\* (app_flags.py 125-138, app_settings.py 289-302)
CreateBucketAsk ==
    /\ Running({"flags.create_bucket", "create_bucket"}, "ask_create")
    /\ \E r \in Answers :
          IF r = "y"
          THEN /\ Setter(Bucket(value.s), pc, Move("return_true", TRUE),
                         hook_calls)
               /\ created' = IF created < 2 THEN created + 1 ELSE created
          ELSE Return(None)
    /\ HookFrame

\* create_bucket: the operator is asked for another name
\* (app_flags.py 148-151, app_settings.py 312-315)
CreateBucketChoose ==
    /\ Running({"flags.create_bucket", "create_bucket"}, "choose_another")
    /\ IF Top.toggle
       THEN \E l \in NameLines :
               /\ l = "c" => Len(stack) < MaxDepth
               /\ HookAssign(Str(l), "top", Top.toggle)
       ELSE Goto("top", Top.toggle)
    /\ HookFrame

\* convert_to_date up to the confirmation (app_settings.py 333-340, 357-360)
ConvertToDate ==
    /\ Running({"convert_to_date"}, "top")
    /\ IF value.t # "str" THEN HookRaise("TypeError")
       ELSE IF value.s \in IsoDates
       THEN HookAssign(Date(value.s), "return_true", FALSE)
       ELSE IF location.t # "str" THEN HookRaise("AttributeError")
       ELSE IF parse_date(value.s, ~StartsWithUs(location.s)) = ""
       THEN HookRaise("ValueError")
       ELSE /\ stack' = [stack EXCEPT ![Len(stack)].at = "confirm",
                            ![Len(stack)].date =
                               Date(parse_date(value.s, ~StartsWithUs(location.s)))]
            /\ UNCHANGED <<__value, __error, custom, storage, created, pc, exc,
                           hook_calls, assigned>>
    /\ HookFrame

\* convert_to_date: the operator confirms the date (app_settings.py 341-356)
ConvertConfirm ==
    /\ Running({"convert_to_date"}, "confirm")
    /\ \E r \in Answers :
          CASE r = "n" -> HookRaise("FlagMakerConfigurationError")
            [] r = "y" -> HookAssign(Top.date, "return_true", FALSE)
            [] OTHER -> Goto("confirm", FALSE)
    /\ HookFrame

\* what the bucket holds for a gs:// URL
BlobOutcomes == {"found", "missing", "elsewhere"}

\* filename.startswith('gs://') on the file names of the model
StartsWithGs(x) == x \in {"gs://b/abc"}

\* ensure_utf8 once the bucket is found (app_flags.py 175-210): "raise"
\* with the exception, or "return".  A name that starts with gs:// is
\* downloaded from the bucket to /tmp (lines 176-180), where blob tells
\* whether the bucket holds it, or that the URL names another bucket than
\* storage_bucket: then the prefix stays in the name and /tmp/gs:// cannot
\* be opened (line 179); any other name is opened under $HOME
\* (lines 198, 186), where file tells whether it is there.  The empty name
\* is $HOME itself, a directory.  A file that was opened is decoded by
\* latin-1 at the latest, and the hook returns True.
ensure_file(v, blob, file) ==
    IF v.t # "str" THEN "AttributeError"
    ELSE IF StartsWithGs(v.s)
         THEN CASE blob = "missing" -> "NotFound"
                [] blob = "elsewhere" -> "FileNotFoundError"
                [] OTHER -> "return"
    ELSE IF v.s = "" THEN "IsADirectoryError"
    ELSE IF file = "missing" THEN "FileNotFoundError"
    ELSE "return"

\* ensure_utf8 (app_flags.py 162-210)
EnsureUtf8 ==
    /\ Running({"ensure_utf8"}, "top")
    /\ IF ~storage THEN HookRaise("AttributeError")
       ELSE \E g \in GetOutcomes, blob \in BlobOutcomes,
               file \in {"found", "missing"} :
              CASE g = "NotFound" -> HookRaise("SystemExit")
                [] g = "Forbidden" -> HookRaise("Forbidden")
                [] g = "found" /\ ensure_file(value, blob, file) # "return" ->
                      HookRaise(ensure_file(value, blob, file))
                [] OTHER -> Return(Bool(TRUE))
    /\ HookFrame

\* return True at the end of create_bucket and of convert_to_date
ReturnTrue ==
    /\ Running({"flags.create_bucket", "create_bucket", "convert_to_date"},
               "return_true")
    /\ Return(Bool(TRUE))
    /\ HookFrame

---------------------------------------------------------------------------
(* Validator.validate (flagmaker.sanity).                                  *)

validate(o, v) ==
    IF o.validation = "None" THEN TRUE
    ELSE v # Str("abc")

---------------------------------------------------------------------------
(* get_prompt and the call of set_value.                                   *)

\* the text of a value, as ' [{0}]'.format(default) shows it
Text(v) ==
    CASE v.t = "str" -> v.s
      [] v.t = "bool" -> IF v.n = 1 THEN "True" ELSE "False"
      [] v.t = "int" -> IF v.n = 2 THEN "2" ELSE "0"
      [] OTHER -> "None"

\* get_prompt(k): the pieces of the prompt text; suffix is what the
\* decorator returned
get_prompt(o, suffix) ==
    <<o.help, "k">>
    \o (IF o.default # None THEN <<Text(o.default)>> ELSE <<>>)
    \o (IF o.prompt # "None"
        THEN <<"\n">> \o (IF o.prompt \notin {"None", "str"} THEN suffix ELSE <<>>)
             \o <<"\nInput">>
        ELSE <<>>)

\* bucket_options: the listing it returns for the buckets bs
bucket_options(bs) == bs \o <<"c: Create New Bucket">>

\* num_opts with the prompt left out of the count
num_opts_without_prompt(a) ==
    (IF a.value # Str("") THEN 1 ELSE 0)
    + (IF a.init # Str("") THEN 1 ELSE 0)

\* line 86: the number of inputs of set_value that differ from ''
num_opts(a) ==
    (IF a.value # Str("") THEN 1 ELSE 0)
    + (IF a.prompt # <<>> THEN 1 ELSE 0)
    + (IF a.init # Str("") THEN 1 ELSE 0)

TypeOK ==
    /\ opt \in Declarations \cup DeclaredOptions
    /\ __value.set \in BOOLEAN
    /\ __error \in BOOLEAN
    /\ pc \in {"idle", "prompt_failed", "loop", "input", "check_error",
               "validate", "returned", "raised"}
    /\ reads \in 0..MaxReads
    /\ calls \in 0..MaxCalls

\* no visibility check is under way
NotEvaluated == [done |-> FALSE, val |-> None, exc |-> "none"]

NoVisibilityCheck ==
    /\ declared = "none"
    /\ show = "None"
    /\ settings = [k \in {"has_historical_data", "has_revenue_column",
                         "has_device_segment", "report_level"} |-> Unset]
    /\ dependent = Unset
    /\ needs_input = NotEvaluated

\* no Decoder has been constructed
NoDecoder ==
    /\ tree = <<>>
    /\ out_type = "SINGLE_FILE"
    /\ first = TRUE
    /\ rows_opened = 0
    /\ _file_count = 0
    /\ exists = {}
    /\ dstack = <<>>
    /\ dpc = "idle"
    /\ dexc = "none"
    /\ written = <<>>
    /\ headers = 0
    /\ emitted = <<>>
    /\ renamed = <<>>
    /\ failed = 0
    /\ skipped = {}

\* the option after SettingOption.create, before any set_value
OptionInit ==
    /\ opt \in {o \in Declarations : WellTyped(o)} \cup DeclaredOptions
    /\ __value = Unset
    /\ __error = FALSE
    /\ custom_data = NoBuckets
    /\ custom = [storage_client |-> FALSE, historical_map |-> FALSE,
                 buckets |-> NoBuckets]
    /\ storage \in (IF UsesStorage(opt) THEN BOOLEAN ELSE {FALSE})
    /\ location \in (IF opt.after = "convert_to_date"
                     THEN {None, Str("US"), Str("GB")} ELSE {Str("US")})
    /\ created = 0
    /\ args = [value |-> Str(""), prompt |-> <<>>, init |-> Str("")]
    /\ pc = "idle"
    /\ stack = <<>>
    /\ exc = "none"
    /\ line = ""
    /\ reads = 0
    /\ hook_calls = 0
    /\ validator_calls = 0
    /\ noticed = FALSE
    /\ decorator_calls = 0
    /\ assigned = [arg |-> None, tick |-> 0]
    /\ entry = [cell |-> Unset, error |-> FALSE]
    /\ calls = 0

Init ==
    /\ OptionInit
    /\ NoVisibilityCheck
    /\ NoDecoder

\* the option may be given to set_value: it is fresh, or the call before
\* was a programmatic init (a value supplied before the interactive pass)
CanCall ==
    /\ calls < MaxCalls
    /\ \/ pc = "idle"
       \/ pc = "returned" /\ args.init # Str("")

\* a caller calls set_value(value=v, init=i), without a prompt
CallDirect ==
    /\ CanCall
    /\ \E v \in {Str(x) : x \in DirectValues}, i \in InitValues :
          args' = [value |-> v, prompt |-> <<>>, init |-> i]
    /\ calls' = calls + 1
    /\ pc' = "loop"
    /\ exc' = "none"
    /\ entry' = [cell |-> __value, error |-> __error]
    /\ reads' = 0
    /\ hook_calls' = 0
    /\ validator_calls' = 0
    /\ noticed' = FALSE
    /\ decorator_calls' = 0
    /\ created' = 0
    /\ UNCHANGED <<opt, __value, __error, custom_data, custom, storage,
                   location, stack, line, assigned>>

\* a caller calls set_value(prompt=get_prompt(k)): get_prompt runs the
\* decorator, then set_value is entered
CallPrompt ==
    /\ CanCall
    /\ calls' = calls + 1
    /\ entry' = [cell |-> __value, error |-> __error]
    /\ reads' = 0
    /\ hook_calls' = 0
    /\ validator_calls' = 0
    /\ noticed' = FALSE
    /\ \E v \in {Str(""), Str("abc")}, i \in {Str(""), None, Str("abc")},
          bs \in BucketLists :
          IF opt.prompt \in {"flags.bucket_options", "bucket_options"}
          THEN IF storage
               THEN /\ args' = [value |-> v, init |-> i,
                                prompt |-> get_prompt(opt, bucket_options(bs))]
                    /\ decorator_calls' = 1
                    /\ IF opt.prompt = "bucket_options"
                       THEN /\ custom' = [custom EXCEPT !.buckets =
                                            [present |-> TRUE, list |-> bs]]
                            /\ UNCHANGED custom_data
                       ELSE /\ custom_data' = [present |-> TRUE, list |-> bs]
                            /\ UNCHANGED custom
                    /\ pc' = "loop"
                    /\ exc' = "none"
               ELSE \* self.storage is None: list_buckets fails in get_prompt,
                    \* set_value is not entered
                    /\ decorator_calls' = 1
                    /\ pc' = "prompt_failed"
                    /\ exc' = "AttributeError"
                    /\ UNCHANGED <<args, custom, custom_data>>
          ELSE /\ args' = [value |-> v, init |-> i,
                           prompt |-> get_prompt(opt, <<>>)]
               /\ decorator_calls' = 0
               /\ pc' = "loop"
               /\ exc' = "none"
               /\ UNCHANGED <<custom, custom_data>>
    /\ created' = 0
    /\ UNCHANGED <<opt, __value, __error, storage, location, stack, line,
                   assigned>>

\* init_value without the test of line 90: None is stored like any value
init_value_stores_none(c, init) == set_val(init)

\* lines 90-94: the cell c after set_value(init=init); None leaves it alone
init_value(c, init) == IF init = None THEN c ELSE set_val(init)

\* lines 85-94 and 104-105: the top of the loop
Loop ==
    /\ pc = "loop"
    /\ stack = <<>>
    /\ IF num_opts(args) # 1
       THEN /\ Raise("FlagMakerInputError")
            /\ UNCHANGED <<__value, __error, custom, storage, created,
                           hook_calls, assigned>>
       ELSE IF args.init # Str("")
       THEN /\ __value' = init_value(__value, args.init)
            /\ pc' = "returned"
            /\ UNCHANGED <<__error, custom, storage, created,
                           hook_calls, assigned, stack, exc>>
       ELSE IF args.prompt # <<>>
       THEN /\ pc' = "input"
            /\ UNCHANGED <<__value, __error, custom, storage, created,
                           hook_calls, assigned, stack, exc>>
       ELSE Assign(args.value, "validate", 0)
    /\ validator_calls' = 0
    /\ UNCHANGED <<opt, custom_data, location, args, line, reads, noticed,
                   decorator_calls, entry, calls>>

\* InputValue without the default: the line is assigned as it is
InputValue_without_default(val, default) == val

\* the value the setter is given for the line val (lines 97-100)
InputValue(val, default) ==
    IF val = Str("") /\ default # None THEN default ELSE val

\* lines 96-100: val = input(prompt), then self.value = default or val
Input ==
    /\ pc = "input"
    /\ stack = <<>>
    /\ \E l \in Lines(opt) :
          /\ line' = l
          /\ Assign(InputValue(Str(l), opt.default), "check_error", 0)
    /\ reads' = IF reads < MaxReads THEN reads + 1 ELSE reads
    /\ validator_calls' = 0
    /\ UNCHANGED <<opt, custom_data, location, args, noticed, decorator_calls,
                   entry, calls>>

\* lines 101-103: a failed hook unwinds the assignment and retries
CheckError ==
    /\ pc = "check_error"
    /\ stack = <<>>
    /\ IF __error
       THEN Assign(None, "loop", hook_calls)
       ELSE /\ pc' = "validate"
            /\ UNCHANGED <<__value, __error, custom, storage, created,
                           hook_calls, assigned, stack, exc>>
    /\ UNCHANGED <<opt, custom_data, location, args, line, reads,
                   validator_calls, noticed, decorator_calls, entry, calls>>

\* may_return without the required check
may_return_unset(o, c) == TRUE

\* line 108: the validated value lets set_value return
may_return(o, c) == c.set \/ ~o.required

\* lines 106-111: validation, then the required check
Validate ==
    /\ pc = "validate"
    /\ stack = <<>>
    /\ validator_calls' = validator_calls + 1
    /\ IF ~validate(opt, value)
       THEN /\ pc' = "loop"
            /\ UNCHANGED noticed
       ELSE IF may_return(opt, __value)
       THEN /\ pc' = "returned"
            /\ UNCHANGED noticed
       ELSE /\ noticed' = TRUE
            /\ pc' = "loop"
    /\ UNCHANGED <<opt, __value, __error, custom, custom_data, storage,
                   location, created, args, stack, exc, line, reads,
                   hook_calls, decorator_calls, assigned, entry, calls>>

Next ==
    \/ CallDirect /\ UNCHANGED others
    \/ CallPrompt /\ UNCHANGED others
    \/ Loop /\ UNCHANGED others
    \/ Input /\ UNCHANGED others
    \/ CheckError /\ UNCHANGED others
    \/ Validate /\ UNCHANGED others
    \/ CreateBucketTop /\ UNCHANGED others
    \/ CreateBucketLookup /\ UNCHANGED others
    \/ CreateBucketAsk /\ UNCHANGED others
    \/ CreateBucketChoose /\ UNCHANGED others
    \/ ConvertToDate /\ UNCHANGED others
    \/ ConvertConfirm /\ UNCHANGED others
    \/ EnsureUtf8 /\ UNCHANGED others
    \/ ReturnTrue /\ UNCHANGED others

Spec == Init /\ [][Next]_vars

\* a step of set_value or of a hook: the program goes on running, and the
\* operator answers every prompt
Step ==
    /\ \/ Loop \/ Input \/ CheckError \/ Validate
       \/ CreateBucketTop \/ CreateBucketLookup \/ CreateBucketAsk
       \/ CreateBucketChoose \/ ConvertToDate \/ ConvertConfirm
       \/ EnsureUtf8 \/ ReturnTrue
    /\ UNCHANGED others

\* set_value, once called, runs on
FairSpec == Spec /\ WF_vars(Step)

---------------------------------------------------------------------------
(* Vocabulary of the properties.                                           *)

\* set_value has been entered and has not been left by a new call
InSetValue == pc \in {"loop", "input", "check_error", "validate", "returned",
                      "raised"}

\* how many of the three inputs differ from the empty string
Supplied ==
    Cardinality({k \in {"value", "init"} : args[k] # Str("")})
    + (IF args.prompt # <<>> THEN 1 ELSE 0)

ProgrammaticInit ==
    InSetValue /\ args.init # Str("") /\ args.value = Str("") /\ args.prompt = <<>>
DirectValue ==
    InSetValue /\ args.value # Str("") /\ args.init = Str("") /\ args.prompt = <<>>
Interactive ==
    InSetValue /\ args.prompt # <<>> /\ args.value = Str("") /\ args.init = Str("")

\* the hook invocations of the iteration a step belongs to, before the step
HookCallsBefore == IF pc \in {"loop", "input"} THEN 0 ELSE hook_calls

\* the declared hook returns a true value whatever it is given
HookAccepts == opt.after = "None" \/
               (opt.after \in SimpleHooks /\ Truthy(SimpleHookResult(opt.after)))

---------------------------------------------------------------------------
(* C1 - C10.                                                               *)

\* C1: set_value called with none or with more than one of value, prompt,
\* init different from '' raises FlagMakerInputError at once: no console
\* read, no hook call and no validator call precede it, and the value cell
\* and the error flag are as they were at the call.
C1_InputErrorImmediate ==
    (InSetValue /\ Supplied # 1) =>
        /\ pc \in {"loop", "raised"}
        /\ pc = "raised" => exc = "FlagMakerInputError"
        /\ reads = 0 /\ hook_calls = 0 /\ validator_calls = 0
        /\ __value = entry.cell /\ __error = entry.error

C1_Witness ==
    /\ pc = "raised" /\ exc = "FlagMakerInputError"
    /\ args.value # Str("") /\ args.prompt # <<>>
    /\ entry.cell.set /\ __value = entry.cell

\* C2: on a boolean option the setter given '0' or 'false' leaves the cell
\* and the error flag as they were and does not invoke the hook; given '1'
\* or 'true' it commits True and invokes the hook (when one is declared).
C2_BooleanFalseSkips ==
    [][(assigned' # assigned /\ opt.method = "DEFINE_boolean") =>
        /\ assigned'.arg \in {Str("0"), Str("false")} =>
              /\ __value' = __value
              /\ __error' = __error
              /\ hook_calls' = HookCallsBefore
        /\ assigned'.arg \in {Str("1"), Str("true")} =>
              /\ __value' = [set |-> TRUE, val |-> Bool(TRUE)]
              /\ opt.after # "None" => hook_calls' = HookCallsBefore + 1
      ]_vars

C2_Witness ==
    /\ opt.method = "DEFINE_boolean" /\ opt.after # "None"
    /\ assigned.arg = Str("0") /\ pc = "check_error"
    /\ ~__value.set /\ hook_calls = 0

\* C3: set_value in programmatic-init mode reads no line and calls neither
\* the hook nor the validator; with init = None the cell is as it was at
\* the call, with any other init the cell holds exactly init when set_value
\* returns.
C3_ProgrammaticInit ==
    ProgrammaticInit =>
        /\ pc \in {"loop", "returned"}
        /\ reads = 0 /\ hook_calls = 0 /\ validator_calls = 0
        /\ pc = "loop" => __value = entry.cell
        /\ (pc = "returned" /\ args.init = None) => __value = entry.cell
        /\ (pc = "returned" /\ args.init # None) =>
              __value = [set |-> TRUE, val |-> args.init]

C3_Witness ==
    /\ ProgrammaticInit /\ pc = "returned"
    /\ opt.method = "DEFINE_boolean" /\ opt.after # "None"
    /\ args.init = Str("0") /\ __value.val = Str("0")

\* C4: an option with a default whose hook and validator accept the default:
\* when the first line read is empty, set_value goes on to return without
\* another read; the value is the default, it counts as explicitly set, and
\* no 'Required Field' notice is shown.
C4_EmptyLineTakesDefault ==
    (Interactive /\ opt.default # None /\ HookAccepts
       /\ validate(opt, opt.default) /\ reads = 1 /\ line = "") =>
        /\ pc \in {"check_error", "validate", "returned"}
        /\ value = opt.default
        /\ value_explicitly_set
        /\ ~noticed

C4_Witness ==
    /\ Interactive /\ pc = "returned" /\ reads = 1 /\ line = ""
    /\ opt.default = Bool(FALSE) /\ opt.required /\ opt.after = "set_clients"
    /\ value = Bool(FALSE)

\* C5 (as claimed): whenever the hook signalled failure, the assignment is
\* unwound: set_value does not return normally with the failed assignment in
\* the cell, and after the unwinding the cell is unset and a new line is read.
C5_FailedHookUnwound ==
    /\ (pc = "returned" /\ ~ProgrammaticInit) => ~__error
    /\ (Interactive /\ pc = "loop" /\ assigned.arg = None) => ~value_explicitly_set
    /\ (InSetValue /\ hook_calls > 1) => pc # "raised"

\* C6 (as claimed): on an integer option a non-numeric line does not end
\* set_value with an error: the cell is as before, no hook ran, and the
\* prompt is read again.
C6_NonNumericRetries ==
    (Interactive /\ opt.method = "DEFINE_integer" /\ reads = 1 /\ line = "abc") =>
        /\ pc \in {"loop", "input"}
        /\ exc = "none"
        /\ __value = entry.cell
        /\ hook_calls = 0

\* the line read is a well-formed answer for the option: a non-empty text
\* for a string option, '1' or 'true' for a boolean option, or an empty
\* line when the option has a default
WellFormedAnswer ==
    \/ line = "" /\ opt.default # None
    \/ line # "" /\ opt.method = "DEFINE_string"
    \/ line \in {"1", "true"} /\ opt.method = "DEFINE_boolean"

\* C7 (as claimed), for the declared options whose hook neither reads the
\* console nor looks a bucket up: once the operator has entered a
\* well-formed answer, set_value returns.
C7_Converges ==
    (/\ Interactive /\ opt \in DeclaredOptions /\ opt.after \notin FramedHooks
     /\ pc = "check_error" /\ WellFormedAnswer)
        ~> (pc = "returned")

\* C8 (as claimed): on a required option without a default, whatever its
\* parser, an empty line is followed by the 'Required Field' notice and
\* another prompt; set_value neither returns nor raises on it.
C8_EmptyLineRequired ==
    (Interactive /\ opt.required /\ opt.default = None /\ HookAccepts
       /\ validate(opt, Str("")) /\ reads = 1 /\ line = "") =>
        /\ pc # "raised"
        /\ pc # "returned"
        /\ pc \in {"loop", "input"} => noticed

\* C9 (as claimed): a FlagMakerConfigurationError raised by the hook does
\* not leave set_value; it counts as a failed hook.
C9_HookErrorIsFailure ==
    Interactive => ~(pc = "raised" /\ exc = "FlagMakerConfigurationError")

\* C10 (as claimed): the callable decorator of an option is invoked once
\* before every console read of set_value.
C10_DecoratorBeforeEveryRead ==
    (Interactive /\ opt.prompt \in {"flags.bucket_options", "bucket_options"}
       /\ reads < MaxReads) =>
        decorator_calls >= reads


\* C17 (as claimed): when get_bucket reports NotFound the operator is asked
\* once; on 'y' storage.create_bucket is called exactly once and the hook
\* ends in success, without raising; on any other answer no bucket is
\* created and the hook signals failure, without raising.
C17_NotFoundCreateOrDecline ==
    [][ /\ created' <= 1
        /\ created' = 1 => pc' # "raised"
        /\ (created' = 1 /\ stack' = <<>>) => ~__error'
        /\ (Running({"flags.create_bucket", "create_bucket"}, "ask_create")
              /\ created' = created /\ stack' # stack) =>
                (__error' /\ pc' # "raised") ]_vars

\* C18 (as claimed): convert_to_date accepts a YYYY-MM-DD value without
\* asking: the date is stored and the hook does not raise; any other value
\* is stored as a date only by the answer 'y' to the confirmation
\* question; the answer 'n' raises a configuration error and any other
\* answer repeats the question.
C18_DateAcceptedOrConfirmed ==
    [][ opt.after = "convert_to_date" =>
        /\ value'.t = "datetime" => pc' # "raised"
        /\ (value'.t = "datetime" /\ value.t # "datetime") =>
              \/ value.s \in IsoDates /\ Running({"convert_to_date"}, "top")
              \/ Running({"convert_to_date"}, "confirm")
        /\ (Running({"convert_to_date"}, "confirm") /\ pc' = "raised") =>
              exc' = "FlagMakerConfigurationError"
        /\ (Running({"convert_to_date"}, "confirm") /\ pc' # "raised"
              /\ value' = value) =>
              stack' = stack ]_vars

\* C19: whenever set_value in direct-value or interactive mode returns for
\* a required option, the value is explicitly set and the validator call
\* of the returning iteration accepted it.
C19_RequiredReturnIsSet ==
    (pc = "returned" /\ (DirectValue \/ Interactive) /\ opt.required) =>
        (value_explicitly_set /\ validator_calls = 1 /\ validate(opt, value))

\* an interactive call on a required option that returned after it had
\* printed 'Required Field' and prompted again
C19_Witness ==
    /\ pc = "returned" /\ Interactive /\ opt.required
    /\ noticed /\ value_explicitly_set

\* C20 (as claimed): set_value in direct-value mode reads nothing from the
\* console and always ends: it returns or raises, whatever the value and
\* the parser, also when the validator rejects the value and when a
\* required boolean option is given '0' or 'false'.  Stated for the options
\* that declare neither a hook nor a validation.
C20_DirectTerminates ==
    /\ [](DirectValue => reads = 0)
    /\ (DirectValue /\ opt.after = "None" /\ opt.validation = "None")
          ~> (pc \in {"returned", "raised"})

\* the line read in this iteration was committed by the value setter
Committed == Coerce(opt.method, assigned.arg).kind = "commit"

\* C21 (as claimed): interactive set_value invokes the validator only for
\* an input that the setter committed and whose hook signaled success in
\* the same iteration, and a validation failure never leads to a return.
C21_ValidatorAfterCommit ==
    [][ (Interactive /\ pc = "validate") =>
           /\ Committed
           /\ ~__error
           /\ ~validate(opt, value) => pc' # "returned" ]_vars

\* C22 (as claimed): a line read by interactive set_value leads to at most
\* one invocation of the post-set hook: none while a failed assignment is
\* unwound, none when the hook itself assigns the option's value.
C22_OneHookCallPerLine ==
    Interactive => hook_calls <= 1

\* line 24: custom_data is an attribute of the class; an option k that
\* never assigned it reads the dict of the class
custom_data_of(k) == custom_data

\* the options created next to storage_bucket by the calls of app_flags.py
\* that do not raise (lines 23, 43, 44, 49)
OtherOptions == {"gcp_project_name", "agency_id", "advertiser_id",
                 "has_historical_data"}

\* C23 (as claimed): 'buckets', written into the custom_data of
\* storage_bucket by its decorator, is never in the custom_data of
\* another option.
C23_CustomDataPrivate ==
    \A k \in OtherOptions : ~custom_data_of(k).present

\* C24 (as claimed): in create_bucket a numeric answer n selects the n-th
\* listed bucket exactly when 1 <= n <= the number of listed buckets; any
\* other number is rejected as an invalid selection and selects nothing.
C24_NumericSelection ==
    [][ (/\ Running({"flags.create_bucket", "create_bucket"}, "top")
         /\ BucketsOf(Top.fn).present
         /\ value.t = "str" /\ value.s \in NumericStrings) =>
          LET n == IntOf(value.s)
              b == BucketsOf(Top.fn).list IN
          IF 1 <= n /\ n <= Len(b)
          THEN value' = Str(b[n])
          ELSE /\ value' = value
               /\ \/ Len(stack') < Len(stack) /\ __error'
                  \/ pc' = "raised" /\ exc' = "FlagMakerConfigurationError"
      ]_vars

\* a create_bucket frame was given another name after a Forbidden lookup
\* and has the lookup of that name still to do
Retrying ==
    \E i \in 1..Len(stack) :
        /\ stack[i].fn \in {"flags.create_bucket", "create_bucket"}
        /\ stack[i].at = "top" /\ stack[i].toggle

\* C28 (as claimed): after a Forbidden lookup create_bucket asks the
\* operator for another value without returning or raising, and then
\* retries the lookup with that value: it does not raise before that
\* lookup.
C28_ForbiddenRetries ==
    [][ /\ (Running({"flags.create_bucket", "create_bucket"},
                    "choose_another") /\ Top.toggle) =>
              /\ pc' # "raised"
              /\ Len(stack') >= Len(stack)
              /\ value' \in {Str(l) : l \in NameLines}
        /\ Retrying => pc' # "raised" ]_vars

---------------------------------------------------------------------------
(* The visibility check of an option.  One option declares a predicate     *)
(* (show / conditional) that reads the value of a sibling option of the    *)
(* settings; the siblings are resolved one by one, and the engine asks     *)
(* maybe_needs_input before and after.                                     *)

\* the predicates declared: app_flags.py line 64 (show=lambda: args[...])
\* and app_settings.py lines 138-240 (conditional=lambda s: s[...])
ShowPredicates ==
    {c.predicate : c \in SourceDeclarations} \ {"-"}

\* the options the predicates read
SiblingKeys ==
    {"has_historical_data", "has_revenue_column", "has_device_segment",
     "report_level"}

\* the option the predicate p reads
Referenced(p) ==
    CASE p \in {"flags.has_historical_data", "has_historical_data"} ->
            "has_historical_data"
      [] p = "has_revenue_column" -> "has_revenue_column"
      [] p = "has_device_segment" -> "has_device_segment"
      [] p = "report_level_not_campaign" -> "report_level"

\* the values the option k can be resolved to: the has_* options are
\* booleans, report_level is one of ReportLevelOptions
SiblingValues(k) ==
    IF k = "report_level"
    THEN {Str("campaign"), Str("keyword"), Str("conversion")}
    ELSE {Bool(TRUE), Bool(FALSE)}

\* the parameters of the lambda p: none for lambda: args[...] of
\* app_flags.py, one for lambda s: s[...] of app_settings.py
Arity(p) == IF p = "flags.has_historical_data" THEN 0 ELSE 1

\* the body of the lambda p, evaluated over the settings s
show_lambda(p, s) ==
    IF p = "report_level_not_campaign"
    THEN Bool(get_val(s["report_level"]) # Str("campaign"))
    ELSE get_val(s[Referenced(p)])

\* self.show() (line 118): the predicate is called without an argument,
\* which is a TypeError for a lambda that takes one
show_call(p, s) ==
    IF Arity(p) = 0
    THEN [done |-> TRUE, val |-> show_lambda(p, s), exc |-> "none"]
    ELSE [done |-> TRUE, val |-> None, exc |-> "TypeError"]

\* lines 116-118: not explicitly_set and (show is None or show())
maybe_needs_input(cell, p, s) ==
    IF cell.set THEN [done |-> TRUE, val |-> Bool(FALSE), exc |-> "none"]
    ELSE IF p = "None"
    THEN [done |-> TRUE, val |-> Bool(TRUE), exc |-> "none"]
    ELSE show_call(p, s)

\* set_value is not running on any option
\* the option of the set_value model is declared and left alone
OptionUnused ==
    /\ OptionInit
    /\ opt = create("help", None, "DEFINE_string", TRUE, "None", "None", "None",
                    "None")

VisibilityInit ==
    /\ OptionUnused
    /\ NoVisibilityCheck
    /\ NoDecoder

\* the option is created (SettingOption.create, lines 30-43): by one of the
\* calls of app_flags.py and app_settings.py that pass a predicate, or by a
\* call that passes helptext first and the predicate, or none, as show
Declare ==
    /\ declared = "none"
    /\ \/ \E c \in {d \in SourceDeclarations : d.predicate # "-"} :
            IF declare_raises(c)
            THEN declared' = "TypeError" /\ show' = show
            ELSE declared' = "created" /\ show' = declare(c).show
       \/ \E p \in ShowPredicates \cup {"None"} :
            /\ declared' = "created"
            /\ show' = create("help", None, "DEFINE_string", TRUE, "None", p,
                              "None", "None").show
    /\ UNCHANGED <<vars, dvars, settings, dependent, needs_input>>

\* a sibling is resolved from a value supplied beforehand (init)
ResolveSibling ==
    /\ declared = "created" /\ show # "None"
    /\ \E k \in SiblingKeys :
         /\ ~settings[k].set
         /\ \E v \in SiblingValues(k) :
              settings' = [settings EXCEPT ![k] = init_value(@, v)]
    /\ needs_input' = NotEvaluated
    /\ UNCHANGED <<vars, dvars, declared, show, dependent>>

\* the option itself is resolved
ResolveDependent ==
    /\ declared = "created" /\ ~dependent.set
    /\ dependent' = init_value(dependent, Str("abc"))
    /\ needs_input' = NotEvaluated
    /\ UNCHANGED <<vars, dvars, declared, show, settings>>

\* the engine asks whether the option needs input
MaybeNeedsInput ==
    /\ declared = "created"
    /\ needs_input' = maybe_needs_input(dependent, show, settings)
    /\ UNCHANGED <<vars, dvars, declared, show, settings, dependent>>

VisibilityNext ==
    \/ Declare \/ ResolveSibling \/ ResolveDependent \/ MaybeNeedsInput

VisibilitySpec == VisibilityInit /\ [][VisibilityNext]_<<vars, vvars, dvars>>

\* C11 (as claimed): while the sibling option a visibility predicate
\* reads is unset, maybe_needs_input does not raise and reports that the
\* option does not need input, for every declared predicate.
C11_UnsetSiblingIsFalsy ==
    (needs_input.done /\ show \in ShowPredicates
       /\ ~settings[Referenced(show)].set) =>
        (needs_input.exc = "none" /\ ~Truthy(needs_input.val))


---------------------------------------------------------------------------
(* The file decoder (src/csv_decoder.py).  Decoder.run walks the tree      *)
(* under Decoder.path; dstack holds the decoders that are running, one     *)
(* frame for each DirectoryDecoder, TarfileDecoder, ZipfileDecoder and     *)
(* FileDecoder whose run has not ended.                                    *)

\* the files and directories under Decoder.path, the root included
MaxNodes == 3

OutTypes == {"SINGLE_FILE", "SEPARATE_FILES"}

\* the dict_map given to Decoder: source column -> canonical column
dict_map == << <<"Name", "account_name">>, <<"Amount", "revenue">> >>

\* str.lower on the column names in use
lower(x) ==
    CASE x \in {"Name", "NAME", "name"} -> "name"
      [] x \in {"Amount", "amount"} -> "amount"
      [] x \in {"Revenue", "revenue"} -> "revenue"
      [] x \in {"Extra", "extra"} -> "extra"
      [] OTHER -> x

\* line 43: self.map = {k.lower(): v for k, v in dict_map.items()}
map == [i \in 1..Len(dict_map) |-> <<lower(dict_map[i][1]), dict_map[i][2]>>]

\* self.parent.map.values()
map_values == [i \in 1..Len(map) |-> map[i][2]]

\* l in self.parent.map
InMap(l) == \E i \in 1..Len(map) : map[i][1] = l

\* self.parent.map[l]
MapGet(l) == map[CHOOSE i \in 1..Len(map) : map[i][1] = l][2]

\* lines 150-152
rename_columns(x) ==
    LET l == lower(x) IN IF InMap(l) THEN MapGet(l) ELSE l

\* the encodings decode_csv tries, in order (line 129)
Encodings == <<"utf-8", "utf-16", "latin-1">>

\* a file: its extension, what its bytes are, the encoding of its text, the
\* columns and the number of data rows of its table
File(ext, content, enc, cols, rows) ==
    [isdir |-> FALSE, ext |-> ext, content |-> content, enc |-> enc,
     cols |-> cols, rows |-> rows]

Directory ==
    [isdir |-> TRUE, ext |-> "", content |-> "dir", enc |-> "none",
     cols |-> <<>>, rows |-> 0]

Tar == File(".tar", "tar", "none", <<>>, 0)

Zip == File(".zip", "zip", "none", <<>>, 0)

\* a tar archive whose name does not say so
Backup == File(".bak", "tar", "none", <<>>, 0)

\* a file that is neither a table nor an archive
Other == File(".txt", "text", "utf-8", <<>>, 0)

\* the tables: a plain one, one in utf-16 with an unmapped column whose
\* lowercased name is a canonical name, a spreadsheet with an unmapped
\* column, and one that lacks a mapped column
Tables ==
    { File(".csv", "text", "utf-8", <<"Name", "Amount">>, 1),
      File(".csv", "text", "utf-16", <<"NAME", "amount", "Revenue">>, 2),
      File(".xlsx", "excel", "none", <<"Name", "Amount", "Extra">>, 1),
      File(".csv", "text", "latin-1", <<"Name">>, 1) }

Profiles == {Directory, Tar, Zip, Backup, Other} \cup Tables

\* tarfile.is_tarfile(path): the content is read, not the name
is_tarfile(f) == f.content = "tar"

\* zipfile.is_zipfile(path): a spreadsheet (.xlsx) is a zip archive too
is_zipfile(f) == f.content \in {"zip", "excel"}

\* path.endswith('.csv') or path.endswith('.xlsx') (line 93)
TabularName(f) == f.ext \in {".csv", ".xlsx"}

\* entries can be listed under f: a directory, or an archive once extracted
IsContainer(f) == f.isdir \/ f.content \in {"tar", "zip"}

\* the nodes a new node can hang under; nodes are numbered level by level
Parents(t) ==
    {k \in 1..Len(t) : IsContainer(t[k].p) /\ k >= t[Len(t)].parent}

\* the trees of at most n nodes; node 1 is Decoder.path
RECURSIVE Trees(_)
Trees(n) ==
    IF n = 1 THEN { <<[p |-> f, parent |-> 0]>> : f \in Profiles }
    ELSE LET T == Trees(n - 1) IN
         T \cup UNION { { Append(t, [p |-> f, parent |-> k]) :
                            f \in Profiles, k \in Parents(t) } :
                        t \in {u \in T : Len(u) = n - 1} }

\* os.listdir(path), as a set: the order is the listing's
Children(n) == {c \in DOMAIN tree : tree[c].parent = n}

\* ChooseyDecoder where the content is looked at before the name
ChooseyDecoder_content_first(n) ==
    LET f == tree[n].p IN
    IF f.isdir THEN "DirectoryDecoder"
    ELSE IF is_tarfile(f) THEN "TarfileDecoder"
    ELSE IF is_zipfile(f) THEN "ZipfileDecoder"
    ELSE IF TabularName(f) THEN "FileDecoder"
    ELSE "Skipping"

\* lines 91-100: the decoder ChooseyDecoder.run hands the path to
ChooseyDecoder(n) ==
    LET f == tree[n].p IN
    IF f.isdir THEN "DirectoryDecoder"
    ELSE IF TabularName(f) THEN "FileDecoder"
    ELSE IF is_tarfile(f) THEN "TarfileDecoder"
    ELSE IF is_zipfile(f) THEN "ZipfileDecoder"
    ELSE "Skipping"

\* a decoder that starts to run on node n
DecoderFrame(fn, n) ==
    [fn |-> fn, node |-> n,
     todo |-> IF fn = "FileDecoder" THEN {} ELSE Children(n), enc |-> 0]

\* lines 180 and 188: extractall creates the extraction directory when it
\* extracts the first entry; for an archive without entries it creates
\* nothing
Extracts(d, n) ==
    d \in {"TarfileDecoder", "ZipfileDecoder"} /\ Children(n) # {}

\* ChooseyDecoder(parent, n).run() below the frames st: a table starts a
\* FileDecoder, an archive is opened and extracted (lines 178-180,
\* 186-188), anything else is logged as skipped (line 100)
Dispatch(n, st) ==
    LET d == ChooseyDecoder(n) IN
    IF d = "Skipping"
    THEN /\ dstack' = st
         /\ skipped' = skipped \cup {n}
         /\ UNCHANGED exists
    ELSE /\ dstack' = Append(st, DecoderFrame(d, n))
         /\ exists' = IF Extracts(d, n) THEN exists \cup {n} ELSE exists
         /\ UNCHANGED skipped

DTop == dstack[Len(dstack)]

DPop == SubSeq(dstack, 1, Len(dstack) - 1)

\* an exception leaves every running decoder and Decoder.run; the 'with'
\* blocks of lines 178 and 186 close the archive and nothing else
DRaise(e) ==
    /\ dpc' = "raised"
    /\ dexc' = e
    /\ dstack' = <<>>

\* the text of f can be read as encoding e
Decodes(f, e) == e = f.enc \/ e = "latin-1"

\* line 163: each column of the frame with its new name
Renamed(cols) ==
    [i \in 1..Len(cols) |-> <<cols[i], rename_columns(cols[i])>>]

\* the labels of the frame after the renaming
Labels(cols) == [i \in 1..Len(cols) |-> rename_columns(cols[i])]

\* to_csv(columns=...): for each name asked for, every column so labelled
RECURSIVE Select(_, _)
Select(labels, cols) ==
    IF cols = <<>> THEN <<>>
    ELSE SelectSeq(labels, LAMBDA x : x = Head(cols))
         \o Select(labels, Tail(cols))

\* to_csv raises KeyError: a name asked for labels no column
Missing(labels) ==
    \E i \in 1..Len(map_values) :
        \A j \in 1..Len(labels) : labels[j] # map_values[i]

\* lines 154-162
include_headers == IF out_type = "SINGLE_FILE" THEN first ELSE TRUE

\* lines 149-171: FileDecoder.write of the frame read from node n
write(n) ==
    LET cols == tree[n].p.cols
        labels == Labels(cols) IN
    /\ first' = IF out_type = "SINGLE_FILE" THEN FALSE ELSE first
    /\ renamed' = Renamed(cols)
    /\ rows_opened' = rows_opened + tree[n].p.rows
    /\ _file_count' = IF out_type = "SINGLE_FILE" THEN _file_count
                      ELSE _file_count + 1
    /\ IF Missing(labels)
       THEN /\ DRaise("KeyError")
            /\ failed' = failed + 1
            /\ UNCHANGED <<written, headers, emitted>>
       ELSE /\ written' = [written EXCEPT ![n] = @ + 1]
            /\ headers' = IF include_headers THEN headers + 1 ELSE headers
            /\ emitted' = Select(labels, map_values)
            /\ dstack' = DPop
            /\ UNCHANGED <<dpc, dexc, failed>>

DecoderInit ==
    /\ OptionUnused
    /\ NoVisibilityCheck
    /\ tree \in Trees(MaxNodes)
    /\ out_type \in OutTypes
    /\ first = TRUE
    /\ rows_opened = 0
    /\ _file_count = 0
    /\ exists = {}
    /\ dstack = <<>>
    /\ dpc = "idle"
    /\ dexc = "none"
    /\ written = [n \in DOMAIN tree |-> 0]
    /\ headers = 0
    /\ emitted = <<>>
    /\ renamed = <<>>
    /\ failed = 0
    /\ skipped = {}

\* lines 61-64: Decoder.run hands Decoder.path to ChooseyDecoder
Run ==
    /\ dpc = "idle"
    /\ dpc' = "running"
    /\ Dispatch(1, <<>>)
    /\ UNCHANGED <<vars, vvars, tree, out_type, first, rows_opened,
                   _file_count, dexc, written, headers, emitted, renamed,
                   failed>>

\* the extraction directory of the archive frame f was never created
NothingExtracted(f) ==
    f.fn \in {"TarfileDecoder", "ZipfileDecoder"} /\ f.node \notin exists

\* lines 104-108 (and 181, 189-191): os.listdir and the next entry of the
\* listing; os.listdir raises FileNotFoundError on an extraction directory
\* that was never created
ListDir ==
    /\ dpc = "running" /\ dstack # <<>>
    /\ DTop.fn \in {"DirectoryDecoder", "TarfileDecoder", "ZipfileDecoder"}
    /\ IF NothingExtracted(DTop)
       THEN /\ DRaise("FileNotFoundError")
            /\ UNCHANGED <<exists, skipped>>
       ELSE /\ \E c \in DTop.todo :
                 Dispatch(c, [dstack EXCEPT ![Len(dstack)].todo = @ \ {c}])
            /\ UNCHANGED <<dpc, dexc>>
    /\ UNCHANGED <<vars, vvars, tree, out_type, first, rows_opened,
                   _file_count, written, headers, emitted, renamed, failed>>

\* DirectoryDecoder.run ends: every entry was handed on
DirectoryDone ==
    /\ dpc = "running" /\ dstack # <<>>
    /\ DTop.fn = "DirectoryDecoder" /\ DTop.todo = {}
    /\ dstack' = DPop
    /\ UNCHANGED <<vars, vvars, tree, out_type, first, rows_opened,
                   _file_count, exists, dpc, dexc, written, headers,
                   emitted, renamed, failed, skipped>>

\* lines 182 and 192: shutil.rmtree(extraction_directory)
ArchiveDone ==
    /\ dpc = "running" /\ dstack # <<>>
    /\ DTop.fn \in {"TarfileDecoder", "ZipfileDecoder"} /\ DTop.todo = {}
    /\ ~NothingExtracted(DTop)
    /\ exists' = exists \ {DTop.node}
    /\ dstack' = DPop
    /\ UNCHANGED <<vars, vvars, tree, out_type, first, rows_opened,
                   _file_count, dpc, dexc, written, headers, emitted,
                   renamed, failed, skipped>>

\* lines 111-126: FileDecoder.run tries decode_excel; read_excel raises
\* XLRDError on a file that is not a spreadsheet
DecodeExcel ==
    /\ dpc = "running" /\ dstack # <<>>
    /\ DTop.fn = "FileDecoder" /\ DTop.enc = 0
    /\ IF tree[DTop.node].p.content = "excel"
       THEN write(DTop.node)
       ELSE /\ dstack' = [dstack EXCEPT ![Len(dstack)].enc = 1]
            /\ UNCHANGED <<first, rows_opened, _file_count, dpc, dexc,
                           written, headers, emitted, renamed, failed>>
    /\ UNCHANGED <<vars, vvars, tree, out_type, exists, skipped>>

\* lines 129-147: one turn of decode_csv's loop
DecodeCsv ==
    /\ dpc = "running" /\ dstack # <<>>
    /\ DTop.fn = "FileDecoder" /\ DTop.enc \in 1..Len(Encodings)
    /\ IF Decodes(tree[DTop.node].p, Encodings[DTop.enc])
       THEN write(DTop.node)
       ELSE /\ IF Encodings[DTop.enc] = "latin-1"
               THEN DRaise("UnicodeDecodeError")
               ELSE /\ dstack' = [dstack EXCEPT ![Len(dstack)].enc = @ + 1]
                    /\ UNCHANGED <<dpc, dexc>>
            /\ UNCHANGED <<first, rows_opened, _file_count, written,
                           headers, emitted, renamed, failed>>
    /\ UNCHANGED <<vars, vvars, tree, out_type, exists, skipped>>

\* lines 65-71: Decoder.run returns the output path
RunReturn ==
    /\ dpc = "running" /\ dstack = <<>>
    /\ dpc' = "returned"
    /\ UNCHANGED <<vars, vvars, tree, out_type, first, rows_opened,
                   _file_count, exists, dstack, dexc, written, headers,
                   emitted, renamed, failed, skipped>>

DecoderNext ==
    \/ Run \/ ListDir \/ DirectoryDone \/ ArchiveDone
    \/ DecodeExcel \/ DecodeCsv \/ RunReturn

DecoderSpec == DecoderInit /\ [][DecoderNext]_<<vars, vvars, dvars>>

\* Decoder.run has ended
RunEnded == dpc \in {"returned", "raised"}

\* the writes that succeeded so far
NoWriteSucceeded == \A n \in DOMAIN written : written[n] = 0

\* C12 (as claimed): when TarfileDecoder.run or ZipfileDecoder.run has
\* ended, normally or by an error raised while an extracted entry was
\* decoded, its extraction directory no longer exists.
C12_ExtractionRemoved ==
    \A n \in exists : \E i \in 1..Len(dstack) : dstack[i].node = n

\* C13 (as claimed): in merged mode the flag first is true exactly when no
\* write to the output has succeeded yet, also after a write that failed.
C13_FirstUntilWritten ==
    out_type = "SINGLE_FILE" => (first <=> NoWriteSucceeded)

\* C14 (as claimed): a write that succeeds emits exactly the canonical
\* columns, one column per canonical name.
C14_OnlyCanonicalColumns ==
    emitted # <<>> => emitted = map_values

\* C15 (as claimed): write renames a column whose lowercased name is a key
\* of the map to its canonical name, and leaves every other column's name
\* as it is in the source.
C15_UnmappedKeepCasing ==
    \A i \in 1..Len(renamed) :
        renamed[i][2] = IF InMap(lower(renamed[i][1]))
                        THEN MapGet(lower(renamed[i][1]))
                        ELSE renamed[i][1]

\* the number of times the rows of node n are to be in the output
Contribution(n) == IF ChooseyDecoder(n) = "FileDecoder" THEN 1 ELSE 0

\* C16 (as claimed): for any tree and listing order, when Decoder.run has
\* ended every .csv/.xlsx file has contributed its rows exactly once and
\* no other path has contributed.
C16_EveryFileOnce ==
    RunEnded => \A n \in DOMAIN tree : written[n] = Contribution(n)

\* the decoder that runs on node n, if one does
Running_on(n, fn) ==
    \E i \in 1..Len(dstack) : dstack[i].node = n /\ dstack[i].fn = fn

\* C25 (as claimed): every path is handed to exactly one decoder or
\* skipped; a tar or zip archive is recognized by its content whatever its
\* file name, a tabular file by the .csv/.xlsx extension, and a path that is
\* none of these is skipped without raising.
C25_ArchivesByContent ==
    \A i \in 1..Len(dstack) :
        LET f == tree[dstack[i].node].p IN
        /\ dstack[i].fn = "DirectoryDecoder" <=> f.isdir
        /\ dstack[i].fn = "TarfileDecoder" <=> (~f.isdir /\ is_tarfile(f))
        /\ dstack[i].fn = "ZipfileDecoder" <=>
              (~f.isdir /\ ~is_tarfile(f) /\ is_zipfile(f))
        /\ dstack[i].fn = "FileDecoder" =>
              (~f.isdir /\ TabularName(f))

\* C25 (amended): every path is handed to exactly one decoder or skipped: a
\* directory to DirectoryDecoder; otherwise a path that ends in .csv or
\* .xlsx to FileDecoder whatever its content (a spreadsheet is a zip
\* archive by content); otherwise a tar or zip archive, recognized by
\* content whatever its name, to its decoder; a path that is none of these
\* is skipped, and skipping raises nothing and leaves the run going.
C25_NameBeforeContent ==
    [][ /\ \A i \in 1..Len(dstack') :
              LET f == tree[dstack'[i].node].p
                  fn == dstack'[i].fn IN
              /\ fn = "DirectoryDecoder" <=> f.isdir
              /\ fn = "FileDecoder" <=> (~f.isdir /\ TabularName(f))
              /\ fn = "TarfileDecoder" <=>
                    (~f.isdir /\ ~TabularName(f) /\ is_tarfile(f))
              /\ fn = "ZipfileDecoder" <=>
                    (~f.isdir /\ ~TabularName(f) /\ ~is_tarfile(f)
                       /\ is_zipfile(f))
        /\ \A n \in skipped' :
              LET f == tree[n].p IN
              /\ ~f.isdir /\ ~TabularName(f)
              /\ ~is_tarfile(f) /\ ~is_zipfile(f)
              /\ \A i \in 1..Len(dstack') : dstack'[i].node # n
        /\ skipped' # skipped =>
              (dpc' = "running" /\ dexc' = "none") ]_<<vars, vvars, dvars>>

\* a path was skipped, an archive named .bak is being listed as a tar
\* archive, and the run goes on
C25_Witness ==
    /\ dpc = "running"
    /\ skipped # {}
    /\ \E n \in DOMAIN tree :
          tree[n].p = Backup /\ Running_on(n, "TarfileDecoder")

\* decode_csv is at the top of the running decoders
InDecodeCsv ==
    /\ dpc = "running" /\ dstack # <<>>
    /\ DTop.fn = "FileDecoder" /\ DTop.enc \in 1..Len(Encodings)

\* the first of the encodings that the text of f can be read as
FirstDecoding(f) ==
    CHOOSE i \in 1..Len(Encodings) :
        /\ Decodes(f, Encodings[i])
        /\ \A j \in 1..(i - 1) : ~Decodes(f, Encodings[j])

\* C26 (as claimed): decode_csv tries utf-8, utf-16, latin-1 in that order
\* and writes the rows once, at the first encoding that decodes; it raises
\* only at latin-1, and an attempt that writes nothing leaves the output,
\* the flag first and rows_opened unchanged.
C26_FailedAttemptChangesNothing ==
    [][ InDecodeCsv =>
          LET n == DTop.node IN
          /\ dpc' = "raised" => Encodings[DTop.enc] = "latin-1"
          /\ written' # written =>
                /\ written' = [written EXCEPT ![n] = 1]
                /\ DTop.enc = FirstDecoding(tree[n].p)
          /\ written' = written =>
                /\ first' = first
                /\ rows_opened' = rows_opened
                /\ headers' = headers /\ emitted' = emitted
                /\ dpc' = "running" =>
                      dstack' = [dstack EXCEPT ![Len(dstack)].enc = @ + 1]
      ]_<<vars, vvars, dvars>>

\* the data rows written to the output by the first k nodes of the tree
RECURSIVE RowsWritten(_)
RowsWritten(k) ==
    IF k = 0 THEN 0
    ELSE written[k] * tree[k].p.rows + RowsWritten(k - 1)

\* C27 (as claimed): at every point of a run rows_opened is the number of
\* data rows written to the output so far, over all files; the rows of a
\* write that did not succeed are not counted.
C27_RowsOpenedCountsWritten ==
    rows_opened = RowsWritten(Len(tree))

=============================================================================
